---------------------------- MODULE Spec2Model ----------------------------
(***************************************************************************)
(* A model of the activity scraper: the three provider transforms          *)
(* (twitter.rs, github.rs, dribbble.rs) and the feed assembly of main.rs.  *)
(*                                                                         *)
(* Strings are sequences of one-character strings, so that str::replace,   *)
(* str::split, the link finder and the mention regex are computed on       *)
(* characters.  A fixed literal that the code interpolates and that no     *)
(* later search can match inside (for instance "https://github.com/") is   *)
(* kept as one element.                                                    *)
(***************************************************************************)
EXTENDS Integers, Sequences, FiniteSets, TLC

VARIABLES
    pc,         \* position of the run / of the function under study
    path,       \* main.rs: whether RYMC_ACTIVITY_PATH is set
    cred,       \* per provider: "unread", "set" or "missing" credentials
    raw,        \* per provider: the response the HTTP collaborator gave
    results,    \* per provider: the Vec<Activity> its transform returned
    feed,       \* main.rs:62  let mut feed: Vec<Activity>
    written,    \* main.rs:84  the entries serialized into activities.json
    files,      \* the files written so far
    input,      \* the argument of the function under study
    output      \* its result

vars == <<pc, path, cred, raw, results, feed, written, files, input, output>>

-----------------------------------------------------------------------------
(* Bounds of the model *)

MaxTs == 2          \* timestamps are 1..MaxTs
MaxTweets == 6      \* posts in one timeline response
MaxEvents == 6      \* events in one code-host response of the full run
MaxShots == 1       \* shots in one portfolio response
MaxBatch == 2       \* events in one code-host response, provider studied alone
MaxCommits == 3     \* distinct_size ranges over -1..MaxCommits
MaxSegs == 3        \* segments a comment text is built from
MaxPostSegs == 3    \* segments a post text is built from

FeedLimit == 12     \* main.rs:84  &feed[0..12]

-----------------------------------------------------------------------------
(* Strings *)

RECURSIVE Flatten(_)
Flatten(ss) == IF ss = <<>> THEN <<>> ELSE Head(ss) \o Flatten(Tail(ss))

StartsWith(t, p) == Len(t) >= Len(p) /\ SubSeq(t, 1, Len(p)) = p

\* The least element of a set of positions, 0 when it is empty.
First(js) == IF js = {} THEN 0 ELSE CHOOSE j \in js : \A k \in js : j <= k

\* 1-based index of the first occurrence of p in t at or after i, 0 when none.
FindFrom(t, p, i) ==
    First({j \in i..(Len(t) - Len(p) + 1) : SubSeq(t, j, j + Len(p) - 1) = p})

\* str::replace with a non-empty pattern: every non-overlapping match, left to right.
RECURSIVE ReplaceNE(_, _, _)
ReplaceNE(t, p, r) ==
    IF Len(t) < Len(p) THEN t
    ELSE IF StartsWith(t, p)
         THEN r \o ReplaceNE(SubSeq(t, Len(p) + 1, Len(t)), p, r)
         ELSE <<Head(t)>> \o ReplaceNE(Tail(t), p, r)

\* str::replace with the empty pattern matches at every character boundary.
RECURSIVE ReplaceEmpty(_, _)
ReplaceEmpty(t, r) ==
    IF t = <<>> THEN r ELSE r \o <<Head(t)>> \o ReplaceEmpty(Tail(t), r)

Replace(t, p, r) == IF p = <<>> THEN ReplaceEmpty(t, r) ELSE ReplaceNE(t, p, r)

Contains(t, p) == FindFrom(t, p, 1) # 0

\* s.split(sep) ... cut[0]: the text before the first occurrence of sep.
SplitFirst(t, sep) ==
    LET i == FindFrom(t, sep, 1) IN IF i = 0 THEN t ELSE SubSeq(t, 1, i - 1)

Digit(d) == CASE d = 0 -> "0" [] d = 1 -> "1" [] d = 2 -> "2" [] d = 3 -> "3"
              [] d = 4 -> "4" [] d = 5 -> "5" [] d = 6 -> "6" [] d = 7 -> "7"
              [] d = 8 -> "8" [] d = 9 -> "9"

\* format!("{}", no) for an i64.
RECURSIVE NatToStr(_)
NatToStr(n) == IF n < 10 THEN <<Digit(n)>> ELSE NatToStr(n \div 10) \o <<Digit(n % 10)>>

IntToStr(n) == IF n < 0 THEN <<"-">> \o NatToStr(0 - n) ELSE NatToStr(n)

QUOTE == "\""
SpecialChars == {QUOTE, "(", ")"}

markdown_link_title_escape(s) ==
    Replace(Replace(Replace(s, <<QUOTE>>, <<"&", "#", "3", "4", ";">>),
                    <<"(">>, <<"&", "#", "4", "0", ";">>),
            <<")">>, <<"&", "#", "4", "1", ";">>)

-----------------------------------------------------------------------------
(* github.rs: the payload tree and the dotted-path accessor *)

\* A serde_json::Value tree is a function from key paths to nodes; a path outside
\* its domain is an absent key.
JObj == [k |-> "obj", s |-> <<>>, n |-> 0]
JStr(s) == [k |-> "str", s |-> s, n |-> 0]
JInt(n) == [k |-> "int", s |-> <<>>, n |-> n]
JFloat == [k |-> "float", s |-> <<>>, n |-> 0]
JNull == [k |-> "null", s |-> <<>>, n |-> 0]
JAbsent == [k |-> "absent", s |-> <<>>, n |-> 0]

Node(value, p) == IF p \in DOMAIN value THEN value[p] ELSE JAbsent

\* Value::get(key): Some only when the parent is an object that holds the key.
HasKey(value, p) ==
    /\ Node(value, SubSeq(p, 1, Len(p) - 1)).k = "obj"
    /\ Node(value, p).k # "absent"

Ok(v) == [st |-> "ok", v |-> v]
Err == [st |-> "err", v |-> <<>>]
Panic == [st |-> "panic", v |-> <<>>]

\* get(value, path): path is the dotted path already split on ".".
get(value, keys) ==
    IF \A i \in 1..Len(keys) : HasKey(value, SubSeq(keys, 1, i))
    THEN IF Node(value, keys).k = "str" THEN Ok(Node(value, keys).s) ELSE Err
    ELSE Err

-----------------------------------------------------------------------------
(* github.rs: clean_text *)

Letters == {"a", "b", "h", "O", "n"}
WordChars == Letters \cup {"_", "-"}
UrlChars == Letters

\* End (1-based, inclusive) of the maximal run of chars of set cs that starts at i.
RECURSIVE RunEnd(_, _, _)
RunEnd(t, i, cs) ==
    IF i + 1 <= Len(t) /\ t[i + 1] \in cs THEN RunEnd(t, i + 1, cs) ELSE i

\* LinkFinder::links(s): the links of s, left to right, each with its 0-based
\* start.  A link is the scheme "h:" (standing for "http://") followed by a
\* maximal non-empty run of URL characters; brackets and spaces end it.
RECURSIVE LinksFrom(_, _)
LinksFrom(t, i) ==
    LET j == First({k \in i..(Len(t) - 2) :
                       t[k] = "h" /\ t[k + 1] = ":" /\ t[k + 2] \in UrlChars})
    IN  IF j = 0 THEN <<>>
        ELSE LET e == RunEnd(t, j + 2, UrlChars)
             IN  <<[start |-> j - 1, str |-> SubSeq(t, j, e)]>> \o LinksFrom(t, e + 1)

Links(t) == LinksFrom(t, 1)

\* SOCIAL_MENTION_REGEX (@[\w_-]+), captures_iter: non-overlapping, left to right.
RECURSIVE MentionsFrom(_, _)
MentionsFrom(t, i) ==
    LET j == First({k \in i..(Len(t) - 1) : t[k] = "@" /\ t[k + 1] \in WordChars})
    IN  IF j = 0 THEN <<>>
        ELSE LET e == RunEnd(t, j + 1, WordChars)
             IN  <<SubSeq(t, j, e)>> \o MentionsFrom(t, e + 1)

QuoteTail == <<"\n", "\n", ">", " ", "O", "n">>

MdLink(l) == <<"[">> \o l \o <<"]", "(">> \o l \o <<")">>

\* text.chars().nth(i) == Some(c), i 0-based.
NthIs(t, i, c) == i + 1 <= Len(t) /\ t[i + 1] = c

\* One pass of the link loop, github.rs:92-102.  link.start() - 2 underflows
\* when the link starts at offset 0 or 1: the debug profile panics, the release
\* profile wraps to an index past the end of every string, which is > 0 and for
\* which nth() is None.
LinkStep(text, link, b) ==
    IF link.start < 2
    THEN IF b = "debug" THEN Panic ELSE Ok(Replace(text, link.str, MdLink(link.str)))
    ELSE LET start == link.start - 2
         IN  IF start > 0 /\ NthIs(text, start, "]")
             THEN Ok(text)
             ELSE Ok(Replace(text, link.str, MdLink(link.str)))

RECURSIVE LinkLoop(_, _, _)
LinkLoop(text, links, b) ==
    IF links = <<>> THEN Ok(text)
    ELSE LET r == LinkStep(text, Head(links), b)
         IN  IF r.st = "panic" THEN Panic ELSE LinkLoop(r.v, Tail(links), b)

MentionLink(m) ==
    <<"[">> \o m \o <<"]", "(", "https://github.com/">> \o Replace(m, <<"@">>, <<>>) \o <<")">>

RECURSIVE MentionLoop(_, _)
MentionLoop(text, ms) ==
    IF ms = <<>> THEN text
    ELSE MentionLoop(Replace(text, Head(ms), MentionLink(Head(ms))), Tail(ms))

\* clean_text(s) under build profile b.  The hashtag matches of github.rs:115
\* are collected and never used.
clean_text(s, b) ==
    LET text0 == SplitFirst(s, QuoteTail)
        r == LinkLoop(text0, Links(s), b)
    IN  IF r.st = "panic" THEN Panic
        ELSE Ok(MentionLoop(r.v, MentionsFrom(r.v, 1)))

-----------------------------------------------------------------------------
(* github.rs: patch_text *)

\* A content string is kept as the sequence of the pieces format! joins: plain
\* text, and markdown links [label](url "title") with their three slots.
Txt(s) == [k |-> "text", s |-> s, label |-> <<>>, url |-> <<>>, title |-> <<>>]
Lnk(label, url, title) == [k |-> "link", s |-> <<>>, label |-> label, url |-> url, title |-> title]

Render(part) ==
    IF part.k = "text" THEN part.s
    ELSE <<"[">> \o part.label \o <<"]", "(">> \o part.url \o <<" ", QUOTE>>
             \o part.title \o <<QUOTE, ")">>

RECURSIVE RenderAll(_)
RenderAll(c) == IF c = <<>> THEN <<>> ELSE Render(Head(c)) \o RenderAll(Tail(c))

ViewOnGitHub(s) == <<"View ">> \o s \o <<" on GitHub">>
GitHubUrl(name) == <<"https://github.com/">> \o name
AtName(name) == <<"@">> \o name

\* All of the gets succeed.
AllOk(rs) == \A i \in 1..Len(rs) : rs[i].st = "ok"

CommitCommentEvent(a, b) ==
    LET body == get(a.payload, <<"comment", "body">>) IN
    IF body.st # "ok" THEN Err
    ELSE LET c == clean_text(body.v, b) IN
         IF c.st = "panic" THEN Panic
         ELSE Ok(<<Txt(c.v), Txt(<<" on ">>),
                   Lnk(a.repo.name, a.repo.url,
                       ViewOnGitHub(markdown_link_title_escape(a.repo.name)))>>)

IssueCommentEvent(a, b) ==
    LET action == get(a.payload, <<"action">>)
        title == get(a.payload, <<"issue", "title">>)
        body == get(a.payload, <<"comment", "body">>)
        url == get(a.payload, <<"issue", "html_url">>)
    IN  IF action.st # "ok" \/ action.v # <<"created">> THEN Err
        ELSE IF ~AllOk(<<title, body>>) THEN Err
        ELSE LET c == clean_text(body.v, b) IN
             IF c.st = "panic" THEN Panic
             ELSE IF url.st # "ok" THEN Err
             ELSE Ok(<<Txt(c.v), Txt(<<" on ">>),
                       Lnk(title.v, url.v, ViewOnGitHub(markdown_link_title_escape(title.v)))>>)

ForkEvent(a) ==
    LET full_name == get(a.payload, <<"forkee", "full_name">>)
        url == get(a.payload, <<"forkee", "html_url">>)
    IN  IF ~AllOk(<<full_name, url>>) THEN Err
        ELSE Ok(<<Txt(<<"Forked ">>),
                  Lnk(AtName(a.repo.name), GitHubUrl(a.repo.name), ViewOnGitHub(a.repo.name)),
                  Txt(<<" to ">>),
                  Lnk(AtName(full_name.v), url.v,
                      ViewOnGitHub(markdown_link_title_escape(full_name.v)))>>)

CreateEvent(a) ==
    LET ref_type == get(a.payload, <<"ref_type">>) IN
    IF ref_type.st # "ok" THEN Err
    ELSE IF ref_type.v = <<"repository">>
         THEN Ok(<<Txt(<<"Created ">>),
                   Lnk(AtName(a.repo.name), GitHubUrl(a.repo.name),
                       ViewOnGitHub(markdown_link_title_escape(a.repo.name)))>>)
         ELSE Err

IssuesEvent(a) ==
    LET action == get(a.payload, <<"action">>)
        title == get(a.payload, <<"issue", "title">>)
        repo == get(a.payload, <<"repository", "full_name">>)
        url == get(a.payload, <<"issue", "html_url">>)
    IN  IF action.st # "ok" THEN Err
        ELSE IF action.v = <<"opened">>
        THEN IF ~AllOk(<<title, repo, url>>) THEN Err
             ELSE Ok(<<Txt(<<"Opened ">>),
                       Lnk(title.v, url.v, ViewOnGitHub(markdown_link_title_escape(title.v))),
                       Txt(<<" in ">>),
                       Lnk(AtName(repo.v), GitHubUrl(repo.v),
                           ViewOnGitHub(markdown_link_title_escape(repo.v)))>>)
        ELSE IF action.v = <<"closed">>
        THEN IF ~AllOk(<<title, url>>) THEN Err
             ELSE Ok(<<Txt(<<"Closed ">>),
                       Lnk(title.v, url.v, ViewOnGitHub(markdown_link_title_escape(title.v))),
                       Txt(<<" in ">>),
                       Lnk(AtName(a.repo.name), GitHubUrl(a.repo.name),
                           ViewOnGitHub(markdown_link_title_escape(a.repo.name)))>>)
        ELSE Err

PullRequestEvent(a) ==
    LET action == get(a.payload, <<"action">>)
        full_name == get(a.payload, <<"pull_request", "base", "repo", "full_name">>)
        title == get(a.payload, <<"pull_request", "title">>)
        url == get(a.payload, <<"pull_request", "html_url">>)
    IN  IF action.st # "ok" THEN Err
        ELSE IF action.v \in {<<"opened">>, <<"closed">>}
        THEN IF ~AllOk(<<full_name, title, url>>) THEN Err
             ELSE Ok(<<Txt(IF action.v = <<"opened">>
                           THEN <<"Opened a pull request in ">>
                           ELSE <<"Closed a pull request in ">>),
                       Lnk(AtName(full_name.v), GitHubUrl(full_name.v), ViewOnGitHub(full_name.v)),
                       Txt(<<":\n\n">>),
                       Lnk(title.v, url.v, <<"View this PR on GitHub">>)>>)
        ELSE Err

\* Mutant: the singular for every count up to one.
CommitWordUpToOne(no) == <<" commit">> \o (IF no <= 1 THEN <<>> ELSE <<"s">>)

\* "commit" plus the plural suffix of github.rs:246-249.
CommitWord(no) == <<" commit">> \o (IF no = 1 THEN <<>> ELSE <<"s">>)

PushEvent(a) ==
    LET ds == Node(a.payload, <<"distinct_size">>)
        before == get(a.payload, <<"before">>)
        head == get(a.payload, <<"head">>)
    IN  IF ~HasKey(a.payload, <<"distinct_size">>) THEN Err
        ELSE IF ds.k # "int" THEN Err
        ELSE IF ~AllOk(<<before, head>>) THEN Err
        ELSE Ok(<<Txt(<<"Pushed ">>),
                  Lnk(IntToStr(ds.n) \o CommitWord(ds.n),
                      GitHubUrl(a.repo.name) \o <<"/compare/">> \o before.v \o <<"...">> \o head.v,
                      <<"View these changes on GitHub">>),
                  Txt(<<" to ">>),
                  Lnk(AtName(a.repo.name), GitHubUrl(a.repo.name),
                      ViewOnGitHub(markdown_link_title_escape(a.repo.name)))>>)

PublicEvent(a) ==
    LET full_name == get(a.payload, <<"repository", "full_name">>) IN
    IF full_name.st # "ok" THEN Err
    ELSE Ok(<<Txt(<<"Open sourced ">>),
              Lnk(AtName(full_name.v), GitHubUrl(full_name.v),
                  ViewOnGitHub(markdown_link_title_escape(full_name.v)))>>)

ReleaseEvent(a) ==
    LET full_name == get(a.payload, <<"repository", "full_name">>)
        tag == get(a.payload, <<"release", "tag_name">>)
        url == get(a.payload, <<"release", "html_url">>)
    IN  IF ~AllOk(<<full_name, tag, url>>) THEN Err
        ELSE Ok(<<Txt(<<"Released ">>),
                  Lnk(AtName(full_name.v) \o <<" ">> \o tag.v, url.v,
                      <<"View this release on GitHub">>)>>)

\* patch_text(activity) under build profile b: the closed dispatch on the type.
patch_text(a, b) ==
    CASE a.action = "CommitCommentEvent" -> CommitCommentEvent(a, b)
      [] a.action = "IssueCommentEvent" -> IssueCommentEvent(a, b)
      [] a.action = "ForkEvent" -> ForkEvent(a)
      [] a.action = "CreateEvent" -> CreateEvent(a)
      [] a.action = "IssuesEvent" -> IssuesEvent(a)
      [] a.action = "PullRequestEvent" -> PullRequestEvent(a)
      [] a.action = "PushEvent" -> PushEvent(a)
      [] a.action = "PublicEvent" -> PublicEvent(a)
      [] a.action = "ReleaseEvent" -> ReleaseEvent(a)
      [] OTHER -> Err

-----------------------------------------------------------------------------
(* Timestamps and items *)

\* A raw timestamp string: the format it is written in and the instant it names.
\* "iso" is %Y-%m-%dT%H:%M:%SZ, "twitter" is %a %b %d %H:%M:%S %z %Y.
RawTs(fmt, t) == [fmt |-> fmt, t |-> t]

\* NaiveDateTime::parse_from_str(&s, FORMAT)
ParsesAs(rawts, fmt) == rawts.fmt = fmt

DateTime(url, action, ts) == [url |-> url, action |-> action, ts |-> ts]
Activity(type, content, datetime) == [type |-> type, content |-> content, datetime |-> datetime]

\* What a provider transform returns, with the files it wrote on the way.
Outcome(st, items, fs) == [st |-> st, v |-> items, files |-> fs]

-----------------------------------------------------------------------------
(* github.rs: get_and_transform_activity_to_html *)

\* The for loop of github.rs:290-301: an Err skips the event, a panic ends the run.
RECURSIVE GhLoop(_, _)
GhLoop(recs, b) ==
    IF recs = <<>> THEN Ok(<<>>)
    ELSE LET r == patch_text(Head(recs), b) IN
         IF r.st = "panic" THEN Panic
         ELSE LET rest == GhLoop(Tail(recs), b) IN
              IF rest.st = "panic" THEN Panic
              ELSE IF r.st = "err" THEN rest
              ELSE Ok(<<Activity("github", r.v,
                                 DateTime(<<>>, "On", Head(recs).created_at.t))>> \o rest.v)

\* Vec<GitHubActivity> deserializes only when every record does.
GhDeserializes(recs) == \A i \in 1..Len(recs) : ParsesAs(recs[i].created_at, "iso")

github_transform(token, pathSet, resp, b) ==
    IF ~token THEN Outcome("panic", <<>>, {})
    ELSE IF resp.st = "repos_error" THEN Outcome("err", <<>>, {})
    ELSE IF ~pathSet THEN Outcome("panic", <<>>, {})
    ELSE IF resp.st = "error" \/ ~GhDeserializes(resp.recs)
         THEN Outcome("err", <<>>, {"github-repos.json"})
    ELSE LET r == GhLoop(resp.recs, b) IN
         IF r.st = "panic" THEN Outcome("panic", <<>>, {"github-repos.json"})
         ELSE Outcome("ok", r.v, {"github-repos.json"})

-----------------------------------------------------------------------------
(* twitter.rs *)

TwitterUrl(name) == <<"https://twitter.com/">> \o name

TwMentionLink(name) ==
    <<"[", "@">> \o name \o <<"]", "(">> \o TwitterUrl(name) \o <<" ", QUOTE, "View ", "@">>
        \o markdown_link_title_escape(name) \o <<" on Twitter", QUOTE, ")">>

TwHashtagLink(tag) ==
    <<"[", "#">> \o tag \o <<"]", "(", "https://twitter.com/hashtag/">> \o tag
        \o <<" ", QUOTE, "View ", "#">> \o markdown_link_title_escape(tag)
        \o <<" on Twitter", QUOTE, ")">>

TwUrlLink(u) == <<"[">> \o u.display_url \o <<"]", "(">> \o u.expanded_url \o <<")">>

TwMediaLink(m) ==
    <<"[", "https://">> \o m.display_url \o <<"]", "(", "https://">> \o m.display_url \o <<")">>

RECURSIVE TwMentions(_, _)
TwMentions(text, ms) ==
    IF ms = <<>> THEN text
    ELSE TwMentions(Replace(text, <<"@">> \o Head(ms), TwMentionLink(Head(ms))), Tail(ms))

RECURSIVE TwHashtags(_, _)
TwHashtags(text, hs) ==
    IF hs = <<>> THEN text
    ELSE TwHashtags(Replace(text, <<"#">> \o Head(hs), TwHashtagLink(Head(hs))), Tail(hs))

RECURSIVE TwUrls(_, _)
TwUrls(text, us) ==
    IF us = <<>> THEN text
    ELSE TwUrls(Replace(text, Head(us).url, TwUrlLink(Head(us))), Tail(us))

\* twitter.rs:120-124: every basic media URL is replaced with "".
RECURSIVE TwMediaBasic(_, _)
TwMediaBasic(text, ms) ==
    IF ms = <<>> THEN text
    ELSE TwMediaBasic(Replace(text, Head(ms).url, <<>>), Tail(ms))

\* twitter.rs:128-135: every extended media URL is replaced with its display link.
RECURSIVE TwMediaExtended(_, _)
TwMediaExtended(text, ms) ==
    IF ms = <<>> THEN text
    ELSE TwMediaExtended(Replace(text, Head(ms).url, TwMediaLink(Head(ms))), Tail(ms))

\* An Option<Vec<_>> is [some |-> BOOLEAN, v |-> the vector].
Some(v) == [some |-> TRUE, v |-> v]
None == [some |-> FALSE, v |-> <<>>]

\* The entity passes of patch_text, twitter.rs:96-137.
TwEntities(text, tweet) ==
    LET t1 == TwMentions(text, tweet.user_mentions)
        t2 == TwHashtags(t1, tweet.hashtags)
        t3 == TwUrls(t2, tweet.urls)
        t4 == IF tweet.media.some THEN TwMediaBasic(t3, tweet.media.v) ELSE t3
    IN  IF tweet.extended_media.some THEN TwMediaExtended(t4, tweet.extended_media.v) ELSE t4

\* patch_text(text, tweet).  tweet.retweeted is the chain of retweeted_status
\* values below the post, outermost first; an element with parses = FALSE is a
\* value that serde_json::from_value::<Tweet> rejects.
RECURSIVE tw_patch_text(_, _)
tw_patch_text(text, tweet) ==
    IF tweet.retweeted # <<>> /\ Head(tweet.retweeted).parses
    THEN LET rt == [Head(tweet.retweeted) EXCEPT !.retweeted = Tail(tweet.retweeted)]
         IN  <<"RT ", "[", "@">> \o rt.screen_name \o <<"]", "(">> \o TwitterUrl(rt.screen_name)
                 \o <<" ", QUOTE, "View ">> \o markdown_link_title_escape(rt.screen_name)
                 \o <<" on Twitter", QUOTE, ")", " ">> \o tw_patch_text(rt.full_text, rt)
    ELSE TwEntities(text, tweet)

\* Vec<Tweet> deserializes only when every post matches the schema and its
\* created_at matches the format.
TwDeserializes(recs) ==
    \A i \in 1..Len(recs) : recs[i].parses /\ ParsesAs(recs[i].created_at, "twitter")

RECURSIVE TwLoop(_)
TwLoop(recs) ==
    IF recs = <<>> THEN <<>>
    ELSE <<Activity("twitter", <<Txt(tw_patch_text(Head(recs).full_text, Head(recs)))>>,
                    DateTime(<<"https://twitter.com/ryanmcgrath/status/">> \o Head(recs).id_str,
                             "Tweeted", Head(recs).created_at.t))>>
         \o TwLoop(Tail(recs))

\* get_and_transform_tweets_to_html: keys is whether all four RYMC_TWITTER_* are set.
twitter_transform(keys, resp) ==
    IF ~keys THEN Outcome("err", <<>>, {})
    ELSE IF resp.st # "ok" \/ ~TwDeserializes(resp.recs) THEN Outcome("err", <<>>, {})
    ELSE Outcome("ok", TwLoop(resp.recs), {})

-----------------------------------------------------------------------------
(* dribbble.rs *)

ViewOnDribbble(s) == <<"View ">> \o s \o <<" on Dribbble">>

TagLink(tag) ==
    Lnk(<<"#">> \o tag, <<"https://dribbble.com/ryanmcgrath/tags/">> \o tag,
        <<"View shots tagged ">> \o markdown_link_title_escape(tag) \o <<" on Dribbble">>)

\* tags.join(" ")
RECURSIVE JoinTags(_)
JoinTags(tags) ==
    IF tags = <<>> THEN <<>>
    ELSE IF Len(tags) = 1 THEN <<TagLink(tags[1])>>
    ELSE <<TagLink(Head(tags)), Txt(<<" ">>)>> \o JoinTags(Tail(tags))

ShotContent(shot) ==
    <<Txt(<<"Unveiled a new Shot: ">>),
      Lnk(shot.title, shot.html_url, ViewOnDribbble(markdown_link_title_escape(shot.title))),
      Txt(<<" ">>),
      Lnk(<<"![">> \o shot.title \o <<"](">> \o shot.teaser \o <<")">>, shot.html_url,
          ViewOnDribbble(markdown_link_title_escape(shot.title))),
      Txt(<<"\n\n">>)>> \o JoinTags(shot.tags)

DrDeserializes(recs) ==
    \A i \in 1..Len(recs) :
        ParsesAs(recs[i].published_at, "iso") /\ ParsesAs(recs[i].updated_at, "iso")

RECURSIVE DrLoop(_)
DrLoop(recs) ==
    IF recs = <<>> THEN <<>>
    ELSE <<Activity("dribbble", ShotContent(Head(recs)),
                    DateTime(Head(recs).html_url, "Shot", Head(recs).published_at.t))>>
         \o DrLoop(Tail(recs))

dribbble_transform(key, pathSet, resp) ==
    IF ~key THEN Outcome("err", <<>>, {})
    ELSE IF resp.st # "ok" \/ ~DrDeserializes(resp.recs) THEN Outcome("err", <<>>, {})
    ELSE IF ~pathSet THEN Outcome("err", <<>>, {})
    ELSE Outcome("ok", DrLoop(resp.recs), {"dribbble.json"})

-----------------------------------------------------------------------------
(* main.rs: the feed assembly *)

\* feed.sort_by(|a, b| b.datetime.ts.cmp(&a.datetime.ts)): a stable sort, most
\* recent first; x stays ahead of the later items that compare equal to it.
\* Mutant: the comparator with its arguments swapped, a.cmp(b).
RECURSIVE InsertDescSwapped(_, _)
InsertDescSwapped(x, s) ==
    IF s = <<>> THEN <<x>>
    ELSE IF Head(s).datetime.ts < x.datetime.ts
         THEN <<Head(s)>> \o InsertDescSwapped(x, Tail(s))
         ELSE <<x>> \o s

RECURSIVE InsertDesc(_, _)
InsertDesc(x, s) ==
    IF s = <<>> THEN <<x>>
    ELSE IF Head(s).datetime.ts > x.datetime.ts
         THEN <<Head(s)>> \o InsertDesc(x, Tail(s))
         ELSE <<x>> \o s

\* Mutant: the sort step left out.
SortSkipped(s) == s

RECURSIVE SortDesc(_)
SortDesc(s) == IF s = <<>> THEN <<>> ELSE InsertDesc(Head(s), SortDesc(Tail(s)))

\* &feed[0..12] panics when the feed is shorter than 12.
SliceInRange(f) == Len(f) >= FeedLimit
Slice(f) == SubSeq(f, 1, FeedLimit)

-----------------------------------------------------------------------------
(* Code-host events *)

Repo(name) == [name |-> name, url |-> <<"https://api.github.com/repos/">> \o name]

Event(type, name, payload, rawts) ==
    [action |-> type, repo |-> Repo(name), payload |-> payload, created_at |-> rawts]

EventTypes ==
    {"CommitCommentEvent", "IssueCommentEvent", "ForkEvent", "CreateEvent", "IssuesEvent",
     "PullRequestEvent", "PushEvent", "PublicEvent", "ReleaseEvent", "UnknownEventType"}
CommentTypes == {"CommitCommentEvent", "IssueCommentEvent"}

\* Names and titles, with and without the characters a link title must not hold.
PlainNames == {<<"r">>}
Names == PlainNames \cup {<<"r", QUOTE>>, <<"(", "r", ")">>}

Url1 == <<"h", ":", "a">>
PlainBodies == {<<"a">>, Url1}
Bodies == PlainBodies \cup {<<"a", " ">> \o Url1, <<"@", "a">>}

\* The fields the handlers read, each with a well-formed value.
PayloadPairs(name, body, act, rt, ds) ==
    {<< <<>>, JObj >>,
     << <<"action">>, JStr(<<act>>) >>,
     << <<"ref_type">>, JStr(<<rt>>) >>,
     << <<"distinct_size">>, ds >>,
     << <<"before">>, JStr(<<"c", "0">>) >>,
     << <<"head">>, JStr(<<"c", "1">>) >>,
     << <<"comment">>, JObj >>,
     << <<"comment", "body">>, JStr(body) >>,
     << <<"issue">>, JObj >>,
     << <<"issue", "title">>, JStr(name) >>,
     << <<"issue", "html_url">>, JStr(<<"https://github.com/r/issues/1">>) >>,
     << <<"forkee">>, JObj >>,
     << <<"forkee", "full_name">>, JStr(name) >>,
     << <<"forkee", "html_url">>, JStr(<<"https://github.com/f/r">>) >>,
     << <<"repository">>, JObj >>,
     << <<"repository", "full_name">>, JStr(name) >>,
     << <<"pull_request">>, JObj >>,
     << <<"pull_request", "title">>, JStr(name) >>,
     << <<"pull_request", "html_url">>, JStr(<<"https://github.com/r/pull/1">>) >>,
     << <<"pull_request", "base">>, JObj >>,
     << <<"pull_request", "base", "repo">>, JObj >>,
     << <<"pull_request", "base", "repo", "full_name">>, JStr(name) >>,
     << <<"release">>, JObj >>,
     << <<"release", "tag_name">>, JStr(<<"v", "1">>) >>,
     << <<"release", "html_url">>, JStr(<<"https://github.com/r/releases/1">>) >>}

\* The paths each handler reads.
ReadPaths(type) ==
    CASE type = "CommitCommentEvent" -> {<<"comment", "body">>}
      [] type = "IssueCommentEvent" ->
            {<<"action">>, <<"issue", "title">>, <<"comment", "body">>, <<"issue", "html_url">>}
      [] type = "ForkEvent" -> {<<"forkee", "full_name">>, <<"forkee", "html_url">>}
      [] type = "CreateEvent" -> {<<"ref_type">>}
      [] type = "IssuesEvent" ->
            {<<"action">>, <<"issue", "title">>, <<"repository", "full_name">>,
             <<"issue", "html_url">>}
      [] type = "PullRequestEvent" ->
            {<<"action">>, <<"pull_request", "base", "repo", "full_name">>,
             <<"pull_request", "title">>, <<"pull_request", "html_url">>}
      [] type = "PushEvent" -> {<<"before">>, <<"head">>}
      [] type = "PublicEvent" -> {<<"repository", "full_name">>}
      [] type = "ReleaseEvent" ->
            {<<"repository", "full_name">>, <<"release", "tag_name">>, <<"release", "html_url">>}
      [] OTHER -> {}

Prefixes(ps) == UNION {{SubSeq(p, 1, i) : i \in 1..Len(p)} : p \in ps}

\* The tree that holds the given <<path, node>> pairs.
RECURSIVE TreeOf(_)
TreeOf(pairs) ==
    IF pairs = {} THEN <<>>
    ELSE LET x == CHOOSE y \in pairs : TRUE IN (x[1] :> x[2]) @@ TreeOf(pairs \ {x})

\* The payload of an event of the given type: an object that holds the fields
\* its handler reads (a push event holds distinct_size as well).
FullPayload(type, name, body, act, rt, ds) ==
    LET pairs == PayloadPairs(name, body, act, rt, ds)
        keep == Prefixes(ReadPaths(type)) \cup {<<>>}
                    \cup (IF type = "PushEvent" THEN {<<"distinct_size">>} ELSE {})
    IN  TreeOf({x \in pairs : x[1] \in keep})

\* A payload defect: one key on a read path is absent, or holds a number.
NoDefect == [kind |-> "none", path |-> <<>>]
Defects(type, kinds) ==
    {NoDefect} \cup {[kind |-> k, path |-> p] : k \in kinds, p \in Prefixes(ReadPaths(type))}
LeafDefects(type, kinds) ==
    {NoDefect} \cup {[kind |-> k, path |-> p] : k \in kinds, p \in ReadPaths(type)}

ApplyDefect(payload, d) ==
    IF d.kind = "none" THEN payload
    ELSE [payload EXCEPT ![d.path] = IF d.kind = "absent" THEN JAbsent ELSE JInt(1)]

Acts(type) ==
    CASE type = "IssueCommentEvent" -> {"created", "edited"}
      [] type \in {"IssuesEvent", "PullRequestEvent"} -> {"opened", "closed", "reopened"}
      [] OTHER -> {"created"}

RefTypes(type) == IF type = "CreateEvent" THEN {"repository", "branch"} ELSE {"repository"}

DistinctSizes(maxCommits) ==
    {JAbsent, JNull, JFloat, JStr(<<"1">>)} \cup {JInt(n) : n \in (-1)..maxCommits}

EventsOf(type, names, bodies, dss, defects) ==
    {Event(type, nm, ApplyDefect(FullPayload(type, nm, body, act, rt, ds), d), RawTs("iso", 1)) :
        nm \in names,
        body \in IF type \in CommentTypes THEN bodies ELSE {<<"a">>},
        act \in Acts(type), rt \in RefTypes(type),
        ds \in IF type = "PushEvent" THEN dss ELSE {JInt(1)},
        d \in defects}

AllEvents(maxCommits) ==
    UNION {EventsOf(type, Names, Bodies, DistinctSizes(maxCommits),
                    Defects(type, {"absent", "number"})) : type \in EventTypes}

-----------------------------------------------------------------------------
(* Inputs of the full run *)

Providers == {"twitter", "github", "dribbble"}
\* The cargo profile the binary was built with: overflow checks on or off.
Builds == {"debug", "release"}
Timestamps == 1..MaxTs

\* The three APIs list the newest record first.
NewestFirst(maxLen) ==
    {s \in UNION {[1..n -> Timestamps] : n \in 0..maxLen} :
        \A i \in 1..(Len(s) - 1) : s[i] >= s[i + 1]}

NoResponse == [st |-> "none", recs |-> <<>>]
TransportError == [st |-> "error", recs |-> <<>>]
Response(recs) == [st |-> "ok", recs |-> recs]

PlainTweet(id, text, rawts) ==
    [id_str |-> id, full_text |-> text, screen_name |-> <<"r">>, parses |-> TRUE,
     user_mentions |-> <<>>, hashtags |-> <<>>, urls |-> <<>>, media |-> None,
     extended_media |-> None, retweeted |-> <<>>, created_at |-> rawts]

TwitterResponses ==
    {TransportError} \cup
    {Response([i \in 1..Len(s) |-> PlainTweet(IntToStr(i), <<"a">>, RawTs("twitter", s[i]))]) :
        s \in NewestFirst(MaxTweets)}

\* The payload of a PublicEvent of repository r.
PublicPayload ==
    (<<>> :> JObj) @@ (<<"repository">> :> JObj) @@ (<<"repository", "full_name">> :> JStr(<<"r">>))

ReposError == [st |-> "repos_error", recs |-> <<>>]

GithubResponses ==
    {ReposError, TransportError} \cup
    {Response([i \in 1..Len(s) |->
                  Event("PublicEvent", <<"r">>, PublicPayload, RawTs("iso", s[i]))]) :
        s \in NewestFirst(MaxEvents)}

Shot(title, tags, rawts) ==
    [title |-> title, tags |-> tags, html_url |-> <<"https://dribbble.com/shots/1">>,
     teaser |-> <<"https://cdn.dribbble.com/1_teaser.png">>,
     published_at |-> rawts, updated_at |-> rawts]

DribbbleResponses ==
    {TransportError} \cup
    {Response([i \in 1..Len(s) |-> Shot(<<"s">>, <<>>, RawTs("iso", s[i]))]) :
        s \in NewestFirst(MaxShots)}

-----------------------------------------------------------------------------
(* main.rs: main *)

Idle == <<>>

Init ==
    /\ pc = "twitter"
    /\ path \in BOOLEAN
    /\ cred = [p \in Providers |-> "unread"]
    /\ raw = [p \in Providers |-> NoResponse]
    /\ results = [p \in Providers |-> <<>>]
    /\ feed = <<>>
    /\ written = <<>>
    /\ files = {}
    /\ input = Idle
    /\ output = Idle

CredState(isSet) == IF isSet THEN "set" ELSE "missing"

\* main.rs:64-67
RunTwitter ==
    /\ pc = "twitter"
    /\ \E keys \in BOOLEAN :
       \E resp \in IF keys THEN TwitterResponses ELSE {NoResponse} :
          LET r == twitter_transform(keys, resp) IN
          /\ cred' = [cred EXCEPT !["twitter"] = CredState(keys)]
          /\ raw' = [raw EXCEPT !["twitter"] = resp]
          /\ results' = [results EXCEPT !["twitter"] = r.v]
          /\ feed' = IF r.st = "ok" THEN feed \o r.v ELSE feed
          /\ files' = files \cup r.files
          /\ pc' = "github"
    /\ UNCHANGED <<path, written, input, output>>

\* main.rs:69-72.  The events are fetched only after the path lookup of
\* github.rs:282 succeeded.
RunGithub ==
    /\ pc = "github"
    /\ \E token \in BOOLEAN, b \in Builds :
       \E resp \in IF ~token THEN {NoResponse}
                   ELSE IF ~path THEN {ReposError, NoResponse}
                   ELSE GithubResponses :
          LET r == github_transform(token, path, resp, b) IN
          /\ cred' = [cred EXCEPT !["github"] = CredState(token)]
          /\ raw' = [raw EXCEPT !["github"] = resp]
          /\ results' = [results EXCEPT !["github"] = r.v]
          /\ feed' = IF r.st = "ok" THEN feed \o r.v ELSE feed
          /\ files' = files \cup r.files
          /\ pc' = IF r.st = "panic" THEN "panicked in github" ELSE "dribbble"
    /\ UNCHANGED <<path, written, input, output>>

\* main.rs:74-77
RunDribbble ==
    /\ pc = "dribbble"
    /\ \E key \in BOOLEAN :
       \E resp \in IF key THEN DribbbleResponses ELSE {NoResponse} :
          LET r == dribbble_transform(key, path, resp) IN
          /\ cred' = [cred EXCEPT !["dribbble"] = CredState(key)]
          /\ raw' = [raw EXCEPT !["dribbble"] = resp]
          /\ results' = [results EXCEPT !["dribbble"] = r.v]
          /\ feed' = IF r.st = "ok" THEN feed \o r.v ELSE feed
          /\ files' = files \cup r.files
          /\ pc' = "sort"
    /\ UNCHANGED <<path, written, input, output>>

\* main.rs:79-81
SortFeed ==
    /\ pc = "sort"
    /\ feed' = SortDesc(feed)
    /\ pc' = "write"
    /\ UNCHANGED <<path, cred, raw, results, written, files, input, output>>

\* main.rs:83-85
WriteFeed ==
    /\ pc = "write"
    /\ IF ~path
       THEN pc' = "panicked at path" /\ UNCHANGED <<written, files>>
       ELSE IF ~SliceInRange(feed)
       THEN pc' = "panicked at slice" /\ UNCHANGED <<written, files>>
       ELSE /\ written' = Slice(feed)
            /\ files' = files \cup {"activities.json"}
            /\ pc' = "done"
    /\ UNCHANGED <<path, cred, raw, results, feed, input, output>>

Next == RunTwitter \/ RunGithub \/ RunDribbble \/ SortFeed \/ WriteFeed

Spec == Init /\ [][Next]_vars

-----------------------------------------------------------------------------
(* Claims about the full run *)

Panicked == {"panicked in github", "panicked at path", "panicked at slice"}
Ts(items) == [i \in 1..Len(items) |-> items[i].datetime.ts]
NonIncreasing(ts) == \A i \in 1..(Len(ts) - 1) : ts[i] >= ts[i + 1]
Count(items, x) == Cardinality({i \in 1..Len(items) : items[i] = x})
SameItems(f, g) ==
    /\ Len(f) = Len(g)
    /\ \A i \in 1..Len(f) : Count(f, f[i]) = Count(g, f[i])

\* The feed as main.rs:64-77 merges it.
Merged == results["twitter"] \o results["github"] \o results["dribbble"]

\* C1 (as claimed): with the output path set and every credential present, whatever
\* the three providers return (an error, or any number of items), the run does
\* not abort before it writes the feed file.
C1_NeverAbortsBeforeWriting ==
    (path /\ \A p \in Providers : cred[p] # "missing") => pc \notin Panicked

\* C2: a merged feed of n >= 12 items is written as exactly 12 entries, most
\* recent first, every item left out being no more recent than any item
\* written; the sorted feed holds exactly the merged items, and the slice never
\* fails on 12 or more items.
C2_MostRecentTwelve ==
    /\ pc = "done" =>
          /\ Len(Merged) >= FeedLimit
          /\ Len(written) = FeedLimit
          /\ NonIncreasing(Ts(written))
          /\ SameItems(feed, Merged)
          /\ written = SubSeq(feed, 1, FeedLimit)
          /\ \A i \in (FeedLimit + 1)..Len(feed) : \A j \in 1..FeedLimit :
                feed[i].datetime.ts <= written[j].datetime.ts
    /\ pc = "panicked at slice" => Len(Merged) < FeedLimit

\* C2 witness: more than 12 items were merged, some were cut, and the written
\* entries carry more than one timestamp.
C2_Witness ==
    /\ pc = "done"
    /\ Len(feed) > FeedLimit
    /\ written[1].datetime.ts > written[FeedLimit].datetime.ts
    /\ Ts(Merged) # Ts(feed)

\* C3 (as claimed): a provider whose credential is missing contributes zero
\* items and does not stop the run; the run goes on to the other providers.
C3_MissingCredentialIsScoped ==
    \A p \in Providers :
        cred[p] = "missing" => (results[p] = <<>> /\ pc # "panicked in github")

\* What main.rs:79-85 makes of a merged feed: the entries written, or the panic
\* of the slice.
Assemble(f) ==
    IF SliceInRange(f) THEN [st |-> "written", v |-> Slice(SortDesc(f))]
    ELSE [st |-> "panicked at slice", v |-> <<>>]

Orders == {o \in [1..3 -> Providers] : \A i, j \in 1..3 : o[i] = o[j] => i = j}
MergedIn(o) == results[o[1]] \o results[o[2]] \o results[o[3]]
Assembled == pc \in {"done", "panicked at slice"}

\* No two items that come from different providers carry the same timestamp.
NoTiesAcrossProviders ==
    \A i, j \in 1..Len(Merged) :
        Merged[i].type # Merged[j].type => Merged[i].datetime.ts # Merged[j].datetime.ts

\* C9 (as claimed): whatever the order in which the three result lists are
\* appended, the written sequence of entries is the same.
C9_SameForEveryOrder ==
    Assembled => \A o \in Orders : Assemble(MergedIn(o)) = Assemble(Merged)

\* C9 (amended): for every append order the run writes or fails alike and the
\* written timestamps are the same; the written entries are the same whenever no
\* two items of different providers have equal timestamps.
C9_SameUpToTies ==
    Assembled =>
        /\ pc = "done" => Assemble(Merged) = [st |-> "written", v |-> written]
        /\ \A o \in Orders :
              /\ Assemble(MergedIn(o)).st = Assemble(Merged).st
              /\ Ts(Assemble(MergedIn(o)).v) = Ts(Assemble(Merged).v)
              /\ NoTiesAcrossProviders => Assemble(MergedIn(o)) = Assemble(Merged)

\* C9 witness: a feed was written from two providers' items with no timestamp
\* shared between them.
C9_Witness ==
    /\ pc = "done"
    /\ NoTiesAcrossProviders
    /\ Cardinality({p \in Providers : results[p] # <<>>}) >= 2

-----------------------------------------------------------------------------
(* patch_text of github.rs on one event *)

InitEvent ==
    /\ pc = "event"
    /\ input \in [event : AllEvents(MaxCommits), build : Builds]
    /\ output = Idle
    /\ path = TRUE
    /\ cred = [p \in Providers |-> "unread"]
    /\ raw = [p \in Providers |-> NoResponse]
    /\ results = [p \in Providers |-> <<>>]
    /\ feed = <<>>
    /\ written = <<>>
    /\ files = {}

\* github.rs:291-294
Dispatch ==
    /\ pc = "event"
    /\ output' = patch_text(input.event, input.build)
    /\ pc' = "dispatched"
    /\ UNCHANGED <<path, cred, raw, results, feed, written, files, input>>

SpecEvent == InitEvent /\ [][Dispatch]_vars

\* The link pieces of a content string.
LinksOf(content) == {content[i] : i \in {j \in 1..Len(content) : content[j].k = "link"}}
HasSpecial(s) == \E i \in 1..Len(s) : s[i] \in SpecialChars
Dispatched == pc = "dispatched"

\* C6 (as claimed): in the content of every event that renders, no link title
\* holds a raw double quote or parenthesis, whatever the names and titles fed in.
C6_TitlesAreEscaped ==
    (Dispatched /\ output.st = "ok") => \A l \in LinksOf(output.v) : ~HasSpecial(l.title)

IsPush == input.event.action = "PushEvent"
PushCount == Node(input.event.payload, <<"distinct_size">>)
PushLabel == output.v[2].label

\* C10: a push event with an integer distinct_size n renders the link label
\* "n commit" for n = 1 and "n commits" for every other n (0, 2 and negative n
\* included), unless another field fails it; a distinct_size that is absent or
\* not an integer fails the event.
C10_PushPluralization ==
    (Dispatched /\ IsPush) =>
        /\ PushCount.k # "int" => output.st = "err"
        /\ output.st = "ok" =>
              /\ PushCount.k = "int"
              /\ PushCount.n = 1 => PushLabel = <<"1", " commit">>
              /\ PushCount.n = 0 => PushLabel = <<"0", " commit", "s">>
              /\ PushCount.n = 2 => PushLabel = <<"2", " commit", "s">>
              /\ PushCount.n # 1 =>
                    PushLabel = IntToStr(PushCount.n) \o <<" commit", "s">>
        /\ (PushCount.k = "int"
                /\ AllOk(<<get(input.event.payload, <<"before">>),
                           get(input.event.payload, <<"head">>)>>))
               => output.st = "ok"

\* C10 witness: pushes of 0, of 1 and of a negative number of commits rendered,
\* seen here on the push of zero commits.
C10_Witness ==
    /\ Dispatched /\ IsPush /\ output.st = "ok"
    /\ PushCount.n = 0
    /\ PushLabel = <<"0", " commit", "s">>

-----------------------------------------------------------------------------
(* get_and_transform_activity_to_html of github.rs on one response *)

BatchEvents(types) ==
    UNION {EventsOf(type, PlainNames, PlainBodies, {JInt(2), JStr(<<"1">>)},
                    LeafDefects(type, {"absent"})) : type \in types}

\* A created_at string that matches FORMAT, or one that does not.
TsFormats == {"iso", "other"}

\* The record at position i carries the instant i, so that items tell which
\* record they come from.
Batches(maxLen) ==
    UNION {{[i \in 1..n |-> [es[i] EXCEPT !.created_at = RawTs(fs[i], i)]] :
                es \in [1..n -> BatchEvents(EventTypes)], fs \in [1..n -> TsFormats]} :
           n \in 0..maxLen}

InitGitHub ==
    /\ pc = "provider"
    /\ input \in [resp : {ReposError, TransportError} \cup {Response(recs) : recs \in Batches(MaxBatch)},
                  build : Builds]
    /\ output = Idle
    /\ path = TRUE
    /\ cred = [p \in Providers |-> IF p = "github" THEN "set" ELSE "unread"]
    /\ raw = [p \in Providers |-> NoResponse]
    /\ results = [p \in Providers |-> <<>>]
    /\ feed = <<>>
    /\ written = <<>>
    /\ files = {}

\* github.rs:275-304
GithubProvider ==
    /\ pc = "provider"
    /\ output' = github_transform(cred["github"] = "set", path, input.resp, input.build)
    /\ pc' = "returned"
    /\ UNCHANGED <<path, cred, raw, results, feed, written, files, input>>

SpecGitHub == InitGitHub /\ [][GithubProvider]_vars

Returned == pc = "returned" /\ input.resp.st = "ok"
Recs == input.resp.recs
Renders(i) == patch_text(Recs[i], input.build).st = "ok"
ItemOf(i) ==
    Activity("github", patch_text(Recs[i], input.build).v,
             DateTime(<<>>, "On", Recs[i].created_at.t))
HasItem(i) == \E j \in 1..Len(output.v) : output.v[j] = ItemOf(i)

\* C4 (as claimed): unless the run itself aborts, a record whose timestamp does
\* not match the format is dropped alone: the provider still returns, with an
\* item for every well-formed record of the batch that renders.
C4_BadRecordDroppedAlone ==
    (Returned /\ output.st # "panic") =>
        /\ output.st = "ok"
        /\ \A i \in 1..Len(Recs) :
              (ParsesAs(Recs[i].created_at, "iso") /\ Renders(i)) => HasItem(i)

\* C5 (as claimed): for every batch of deserialized events the provider returns
\* exactly the items of the events whose handler succeeds, in their original
\* order; every other event is skipped without a crash.
C5_SkipsOneEventOnly ==
    (Returned /\ GhDeserializes(Recs)) =>
        /\ output.st = "ok"
        /\ \A i \in 1..Len(Recs) : Renders(i) <=> HasItem(i)
        /\ Len(output.v) = Cardinality({i \in 1..Len(Recs) : Renders(i)})
        /\ \A j \in 1..(Len(output.v) - 1) :
              output.v[j].datetime.ts < output.v[j + 1].datetime.ts

-----------------------------------------------------------------------------
(* patch_text of twitter.rs on one post *)

\* Every text made of at most maxSegs of the given segments.
TextsOf(segs, maxSegs) ==
    UNION {{Flatten(ss) : ss \in [1..n -> segs]} : n \in 0..maxSegs}

Handle == <<"b">>
Tag == <<"c">>
ShortUrl == <<"t", ":", "u">>
MediaUrl == <<"t", ":", "m">>
PostSegments == {<<"a">>, <<" ">>, <<"@">> \o Handle, <<"#">> \o Tag, ShortUrl, MediaUrl}

UrlEntity == [url |-> ShortUrl, display_url |-> <<"x.co">>, expanded_url |-> <<"https://x.co">>]
MediaEntity == [url |-> MediaUrl, display_url |-> <<"pic.twitter.com/1">>]

\* The retweeted_status values a post may carry: none, a post, or a value that
\* does not deserialize as a post.
Original(parses) ==
    [PlainTweet(<<"2">>, <<"a", " ", "@">> \o Handle, RawTs("twitter", 1))
        EXCEPT !.screen_name = <<"o", QUOTE>>, !.user_mentions = <<Handle>>, !.parses = parses]
RetweetChains == {<<>>, <<Original(TRUE)>>, <<Original(FALSE)>>}

Posts(maxSegs) ==
    {[PlainTweet(<<"1">>, text, RawTs("twitter", 1))
         EXCEPT !.user_mentions = ms, !.hashtags = hs, !.urls = us, !.media = md,
                !.extended_media = xm, !.retweeted = rt] :
        text \in TextsOf(PostSegments, maxSegs),
        ms \in {<<>>, <<Handle>>}, hs \in {<<>>, <<Tag>>}, us \in {<<>>, <<UrlEntity>>},
        md \in {None, Some(<<MediaEntity>>)}, xm \in {None, Some(<<MediaEntity>>)},
        rt \in RetweetChains}

InitTweet ==
    /\ pc = "post"
    /\ input \in Posts(MaxPostSegs)
    /\ output = Idle
    /\ path = TRUE
    /\ cred = [p \in Providers |-> "unread"]
    /\ raw = [p \in Providers |-> NoResponse]
    /\ results = [p \in Providers |-> <<>>]
    /\ feed = <<>>
    /\ written = <<>>
    /\ files = {}

\* twitter.rs:158
PatchTweet ==
    /\ pc = "post"
    /\ output' = tw_patch_text(input.full_text, input)
    /\ pc' = "patched"
    /\ UNCHANGED <<path, cred, raw, results, feed, written, files, input>>

SpecTweet == InitTweet /\ [][PatchTweet]_vars

\* The post lists media entity m both as basic and as extended media.
InBoth(m) ==
    /\ input.media.some /\ \E i \in 1..Len(input.media.v) : input.media.v[i].url = m.url
    /\ input.extended_media.some
    /\ \E i \in 1..Len(input.extended_media.v) : input.extended_media.v[i] = m

\* C7 (as claimed): when a post that is not a repost lists the same media URL
\* as basic and as extended media and its text holds that URL, the content
\* holds the extended rendering [https://display](https://display).
C7_ExtendedMediaPreferred ==
    (pc = "patched" /\ input.retweeted = <<>> /\ InBoth(MediaEntity)
        /\ Contains(input.full_text, MediaUrl))
    => Contains(output, TwMediaLink(MediaEntity))

-----------------------------------------------------------------------------
(* clean_text of github.rs on one comment text *)

Url2 == <<"h", ":", "b">>
Urls == {Url1, Url2}

\* A URL that is already the target of a markdown link.
Linked(u) == <<"[", "a", "]", "(">> \o u \o <<")">>

CommentSegments ==
    {<<"a">>, <<" ">>, <<"@", "a">>, Url1, Url2, Linked(Url1), QuoteTail}

InitClean ==
    /\ pc = "text"
    /\ input \in [s : TextsOf(CommentSegments, MaxSegs), build : Builds]
    /\ output = Idle
    /\ path = TRUE
    /\ cred = [p \in Providers |-> "unread"]
    /\ raw = [p \in Providers |-> NoResponse]
    /\ results = [p \in Providers |-> <<>>]
    /\ feed = <<>>
    /\ written = <<>>
    /\ files = {}

\* github.rs:81-128
CleanText ==
    /\ pc = "text"
    /\ output' = clean_text(input.s, input.build)
    /\ pc' = "cleaned"
    /\ UNCHANGED <<path, cred, raw, results, feed, written, files, input>>

SpecClean == InitClean /\ [][CleanText]_vars

Occurrences(t, p) == Cardinality({i \in 1..Len(t) : FindFrom(t, p, i) = i})

\* C8 (as claimed): every URL occurrence that is already the target of a
\* markdown link comes out of clean_text as it went in, wherever it stands and
\* whatever other URLs, quoted tail or further occurrence the text holds.
C8_LinkedUrlLeftAlone ==
    (pc = "cleaned" /\ output.st = "ok") =>
        \A u \in Urls :
            Occurrences(output.v, Linked(u))
                = Occurrences(SplitFirst(input.s, QuoteTail), Linked(u))

\* The links of the input that start at offset 0 or 1: fewer than two characters
\* stand before them, so the lookback of github.rs:95 has nothing to look at.
EarlyLinks == {k \in 1..Len(Links(input.s)) : Links(input.s)[k].start < 2}

\* C11 (as claimed): clean_text returns a string for every comment text, a text
\* whose URL starts at offset 0 or 1 included, and that URL comes out rewritten
\* to [url](url) as a URL that is not already linked.
C11_LookbackNeverFails ==
    pc = "cleaned" =>
        /\ output.st = "ok"
        /\ \A k \in EarlyLinks :
               Contains(output.v, MdLink(Links(input.s)[k].str))

\* The text the mention pass of github.rs:104-113 starts from, and the mentions
\* captures_iter finds in it, one per occurrence, left to right.
MentionPassInput ==
    LinkLoop(SplitFirst(input.s, QuoteTail), Links(input.s), input.build).v
MentionsFound == MentionsFrom(MentionPassInput, 1)

\* C12 (as claimed, for the mention pass of clean_text): every mention
\* occurrence of the text ends up as exactly one markdown link, and no link's
\* label holds another generated link, a handle that occurs twice or that is
\* the prefix of another handle of the text included.
C12_MentionsLinkedOnce ==
    (pc = "cleaned" /\ output.st = "ok") =>
        \A k \in 1..Len(MentionsFound) :
            /\ Occurrences(output.v, MentionLink(MentionsFound[k]))
                   = Cardinality({j \in 1..Len(MentionsFound) :
                                     MentionsFound[j] = MentionsFound[k]})
            /\ ~Contains(output.v, <<"[">> \o MentionLink(MentionsFound[k]))

=============================================================================
